---- MODULE Spec2Model ----
(***************************************************************************)
(* Model of spade's vector_traits.rs: the VectorN capability, the derived  *)
(* VectorNExtensions operations and ThreeDimensional::cross, instantiated  *)
(* for the fixed arrays [S; 2], [S; 3], [S; 4] with S = i32.               *)
(*                                                                         *)
(* A vector is a function from 0 .. n-1 to scalars.  A scalar operation    *)
(* yields a record [v, panic]: panic is "none" or the kind of panic that   *)
(* ended the evaluation.  An extension operation yields an outcome record  *)
(* [self, rhs, result, panic, log]: the receiver and argument after the    *)
(* call, the value built, and the sequence of component accesses and       *)
(* closure applications the call made, in order.                           *)
(***************************************************************************)
EXTENDS Integers, Sequences, FiniteSets, TLC

\* Largest small scalar the inputs are drawn from.
MaxVal == 1

\* i32::MAX and i32::MIN, the range of the scalar type.
MaxInt == 2147483647
MinInt == (-MaxInt) - 1

(***************************************************************************)
(* Scalar arithmetic of i32.  oc is the build's overflow-checks setting:   *)
(* with it an overflowing + - * panics, without it the result wraps        *)
(* modulo 2^32.  Division panics on a zero divisor and on MinInt / -1 in   *)
(* every build.  All intermediate values stay inside the i32 range.        *)
(***************************************************************************)
Ok(v) == [v |-> v, panic |-> "none"]
Panic(kind) == [v |-> 0, panic |-> kind]

add_overflows(l, r) ==
    \/ r > 0 /\ l > MaxInt - r
    \/ r < 0 /\ l < MinInt - r

wrapping_add(l, r) ==
    IF r > 0 /\ l > MaxInt - r THEN ((l - MaxInt) + (r - MaxInt)) - 2
    ELSE IF r < 0 /\ l < MinInt - r THEN (l - MinInt) + (r - MinInt)
    ELSE l + r

sub_overflows(l, r) ==
    \/ r < 0 /\ l > MaxInt + r
    \/ r > 0 /\ l < MinInt + r

wrapping_sub(l, r) ==
    IF r < 0 /\ l > MaxInt + r THEN ((l - MaxInt) - (r - MinInt)) - 1
    ELSE IF r > 0 /\ l < MinInt + r THEN ((l - MinInt) - (r - MaxInt)) + 1
    ELSE l - r

\* l * r modulo 2^32, computed on 16-bit and 8-bit limbs.
wrapping_mul(l, r) ==
    LET lhi == l \div 65536
        llo == l % 65536
        rhi == r \div 65536
        rlo == r % 65536
        m   == (((lhi * rlo) % 65536) + ((llo * rhi) % 65536)) % 65536
        l1  == llo \div 256
        l0  == llo % 256
        r1  == rlo \div 256
        r0  == rlo % 256
        t   == (l1 * r0) + (l0 * r1)
        low == (l0 * r0) + ((t % 256) * 256)
        plo == low % 65536
        phi == (l1 * r1) + (t \div 256) + (low \div 65536)
        hi  == (m + phi) % 65536
        shi == IF hi >= 32768 THEN hi - 65536 ELSE hi
    IN  (shi * 65536) + plo

\* l / r rounded towards zero, for r > 0.
tdiv_pos(l, r) ==
    LET q == l \div r
    IN  IF l < 0 /\ (l % r) # 0 THEN q + 1 ELSE q

\* l / r rounded towards zero, for r # 0 and (l, r) # (MinInt, -1).
wrapping_div(l, r) ==
    IF r > 0 THEN tdiv_pos(l, r)
    ELSE IF r = MinInt THEN (IF l = MinInt THEN 1 ELSE 0)
    ELSE -tdiv_pos(l, -r)

mul_overflows(l, r) ==
    /\ l # 0
    /\ \/ l = -1 /\ r = MinInt
       \/ wrapping_div(wrapping_mul(l, r), l) # r

scalar_add(l, r, oc) ==
    IF oc /\ add_overflows(l, r) THEN Panic("overflow") ELSE Ok(wrapping_add(l, r))

scalar_sub(l, r, oc) ==
    IF oc /\ sub_overflows(l, r) THEN Panic("overflow") ELSE Ok(wrapping_sub(l, r))

scalar_mul(l, r, oc) ==
    IF oc /\ mul_overflows(l, r) THEN Panic("overflow") ELSE Ok(wrapping_mul(l, r))

scalar_div(l, r, oc) ==
    IF r = 0 THEN Panic("div_by_zero")
    ELSE IF l = MinInt /\ r = -1 THEN Panic("overflow")
    ELSE Ok(wrapping_div(l, r))

zero == 0

min_inline(l, r) == IF l < r THEN l ELSE r
max_inline(l, r) == IF l > r THEN l ELSE r


(***************************************************************************)
(* The vector types: the fixed arrays of length 2, 3 and 4.                *)
(***************************************************************************)
VecTypes == {"Array2", "Array3", "Array4"}

dimensions(T) ==
    CASE T = "Array2" -> 2
      [] T = "Array3" -> 3
      [] T = "Array4" -> 4

from_value(T, value) ==
    CASE T = "Array2" -> [i \in 0 .. 1 |-> value]
      [] T = "Array3" -> [i \in 0 .. 2 |-> value]
      [] T = "Array4" -> [i \in 0 .. 3 |-> value]

new(T) == from_value(T, zero)

\* The types that implement ThreeDimensional.
ThreeDimensional == {"Array3"}

(***************************************************************************)
(* Component access.  st is the evaluation state of one call: the objects  *)
(* self, rhs and result, the pending panic and the log.  An access with an *)
(* index outside the array panics (Rust's bounds check on self[index]).    *)
(***************************************************************************)
Ev(ev, obj, i) == [ev |-> ev, obj |-> obj, i |-> i]

Access(st, ev, obj, i) ==
    [st EXCEPT !.log = Append(@, Ev(ev, obj, i)),
               !.panic = IF i \in DOMAIN st[obj] THEN @ ELSE "index"]

nth(st, obj, i) == Access(st, "nth", obj, i)

\* *obj.nth_mut(i) = val
nth_mut(st, obj, i, val) ==
    LET s1 == Access(st, "nth_mut", obj, i)
    IN  IF s1.panic # "none" THEN s1
        ELSE [s1 EXCEPT ![obj] = [@ EXCEPT ![i] = val]]

\* The application of a closure at loop index i, with its arguments.
Applied(st, i, args, res) ==
    [st EXCEPT !.log = Append(@, [ev |-> "f", obj |-> "closure", i |-> i, args |-> args]),
               !.panic = res.panic]

Start(self, rhs, result) ==
    [self |-> self, rhs |-> rhs, result |-> result, panic |-> "none", log |-> <<>>]

(***************************************************************************)
(* The closures passed to the combinators, by name.                        *)
(***************************************************************************)
\* |l, r| l + r, l - r, l * r, min_inline(l, r), max_inline(l, r), r
apply2(f, l, r, oc) ==
    CASE f = "add" -> scalar_add(l, r, oc)
      [] f = "sub" -> scalar_sub(l, r, oc)
      [] f = "mul" -> scalar_mul(l, r, oc)
      [] f = "min" -> Ok(min_inline(l, r))
      [] f = "max" -> Ok(max_inline(l, r))
      [] f = "rhs" -> Ok(r)

\* |x| x * scalar, x / scalar, x, x + 1; f.k is the captured scalar
apply1(f, v, oc) ==
    CASE f.op = "mul" -> scalar_mul(v, f.k, oc)
      [] f.op = "div" -> scalar_div(v, f.k, oc)
      [] f.op = "id"  -> Ok(v)
      [] f.op = "inc" -> scalar_add(v, 1, oc)

\* |acc, val| acc + val over a scalar accumulator; |acc, val| acc ++ [val] over a list
applyF(f, acc, v, oc) ==
    CASE f = "sum"  -> scalar_add(acc, v, oc)
      [] f = "push" -> Ok(Append(acc, v))

\* |l, r| true, l == r, l <= r
applyP(p, l, r) ==
    CASE p = "true" -> TRUE
      [] p = "eq"   -> l = r
      [] p = "le"   -> l <= r

(***************************************************************************)
(* component_wise: clone self, then overwrite every component.             *)
(***************************************************************************)
\* Variant: the loop body writes through self instead of the clone.
component_wise_body_in_place(st, f, i, oc) ==
    LET s1 == nth(st, "self", i)
        s2 == nth(s1, "rhs", i)
        s3 == Applied(s2, i, <<st.self[i], st.rhs[i]>>, apply2(f, st.self[i], st.rhs[i], oc))
        s4 == nth_mut(s3, "self", i, apply2(f, st.self[i], st.rhs[i], oc).v)
    IN  IF s1.panic # "none" THEN s1
        ELSE IF s2.panic # "none" THEN s2
        ELSE IF s3.panic # "none" THEN s3
        ELSE [s4 EXCEPT !.result = s4.self]

component_wise_body(st, f, i, oc) ==
    LET s1 == nth(st, "self", i)
        s2 == nth(s1, "rhs", i)
        s3 == Applied(s2, i, <<st.self[i], st.rhs[i]>>, apply2(f, st.self[i], st.rhs[i], oc))
    IN  IF s1.panic # "none" THEN s1
        ELSE IF s2.panic # "none" THEN s2
        ELSE IF s3.panic # "none" THEN s3
        ELSE nth_mut(s3, "result", i, apply2(f, st.self[i], st.rhs[i], oc).v)

RECURSIVE component_wise_loop(_, _, _, _, _)
component_wise_loop(st, f, i, n, oc) ==
    IF i >= n \/ st.panic # "none" THEN st
    ELSE component_wise_loop(component_wise_body(st, f, i, oc), f, i + 1, n, oc)

\* Variant: the loop stops one component early.
component_wise_short(T, self, rhs, f, oc) ==
    component_wise_loop(Start(self, rhs, self), f, 0, dimensions(T) - 1, oc)

component_wise(T, self, rhs, f, oc) ==
    component_wise_loop(Start(self, rhs, self), f, 0, dimensions(T), oc)

add(T, self, rhs, oc) == component_wise(T, self, rhs, "add", oc)
\* Variant: sub with the closure of add.
sub_as_add(T, self, rhs, oc) == component_wise(T, self, rhs, "add", oc)
sub(T, self, rhs, oc) == component_wise(T, self, rhs, "sub", oc)
min_vec(T, self, rhs, oc) == component_wise(T, self, rhs, "min", oc)
max_vec(T, self, rhs, oc) == component_wise(T, self, rhs, "max", oc)

(***************************************************************************)
(* map: a zero vector of the target type O, then one write per component   *)
(* of the source type T.  The right-hand side of the assignment is         *)
(* evaluated before the place result.nth_mut(i).                           *)
(***************************************************************************)
map_body(st, f, i, oc) ==
    LET s1 == nth(st, "self", i)
        s2 == Applied(s1, i, <<st.self[i]>>, apply1(f, st.self[i], oc))
    IN  IF s1.panic # "none" THEN s1
        ELSE IF s2.panic # "none" THEN s2
        ELSE nth_mut(s2, "result", i, apply1(f, st.self[i], oc).v)

RECURSIVE map_loop(_, _, _, _, _)
map_loop(st, f, i, n, oc) ==
    IF i >= n \/ st.panic # "none" THEN st
    ELSE map_loop(map_body(st, f, i, oc), f, i + 1, n, oc)

\* Variant: the result is allocated with the source type's new().
map_into_source_type(T, O, self, rhs, f, oc) ==
    map_loop(Start(self, rhs, new(T)), f, 0, dimensions(T), oc)

\* rhs is carried along untouched: map has no second vector argument.
map(T, O, self, rhs, f, oc) ==
    map_loop(Start(self, rhs, new(O)), f, 0, dimensions(T), oc)

mul(T, self, rhs, scalar, oc) == map(T, T, self, rhs, [op |-> "mul", k |-> scalar], oc)
\* Variant: div with the closure of mul.
div_as_mul(T, self, rhs, scalar, oc) == map(T, T, self, rhs, [op |-> "mul", k |-> scalar], oc)
div(T, self, rhs, scalar, oc) == map(T, T, self, rhs, [op |-> "div", k |-> scalar], oc)

(***************************************************************************)
(* fold: result holds the accumulator.                                     *)
(***************************************************************************)
\* Variant: the components are visited from the last to the first.
fold_body_reversed(st, f, i, oc) ==
    LET j  == (Cardinality(DOMAIN st.self) - 1) - i
        s1 == nth(st, "self", j)
        s2 == Applied(s1, i, <<st.result, st.self[j]>>, applyF(f, st.result, st.self[j], oc))
    IN  IF s1.panic # "none" THEN s1
        ELSE IF s2.panic # "none" THEN s2
        ELSE [s2 EXCEPT !.result = applyF(f, st.result, st.self[j], oc).v]

fold_body(st, f, i, oc) ==
    LET s1 == nth(st, "self", i)
        s2 == Applied(s1, i, <<st.result, st.self[i]>>, applyF(f, st.result, st.self[i], oc))
    IN  IF s1.panic # "none" THEN s1
        ELSE IF s2.panic # "none" THEN s2
        ELSE [s2 EXCEPT !.result = applyF(f, st.result, st.self[i], oc).v]

RECURSIVE fold_loop(_, _, _, _, _)
fold_loop(st, f, i, n, oc) ==
    IF i >= n \/ st.panic # "none" THEN st
    ELSE fold_loop(fold_body(st, f, i, oc), f, i + 1, n, oc)

\* Variant: the loop runs over 0 ..= dimensions().
fold_inclusive(T, self, rhs, acc, f, oc) ==
    fold_loop(Start(self, rhs, acc), f, 0, dimensions(T) + 1, oc)

fold(T, self, rhs, acc, f, oc) ==
    fold_loop(Start(self, rhs, acc), f, 0, dimensions(T), oc)

(***************************************************************************)
(* all_comp_wise: result is "pending" while the loop runs, "false" after   *)
(* the early return, "true" when the loop ran to its end.                  *)
(***************************************************************************)
all_comp_wise_body(st, p, i) ==
    LET s1 == nth(st, "self", i)
        s2 == nth(s1, "rhs", i)
        s3 == Applied(s2, i, <<st.self[i], st.rhs[i]>>, Ok(0))
    IN  IF s1.panic # "none" THEN s1
        ELSE IF s2.panic # "none" THEN s2
        ELSE IF ~applyP(p, st.self[i], st.rhs[i]) THEN [s3 EXCEPT !.result = "false"]
        ELSE s3

RECURSIVE all_comp_wise_loop(_, _, _, _)
all_comp_wise_loop(st, p, i, n) ==
    IF st.panic # "none" \/ st.result = "false" THEN st
    ELSE IF i >= n THEN [st EXCEPT !.result = "true"]
    ELSE all_comp_wise_loop(all_comp_wise_body(st, p, i), p, i + 1, n)

\* Variant: the loop starts at index 1.
all_comp_wise_from_one(T, self, rhs, p) ==
    all_comp_wise_loop(Start(self, rhs, "pending"), p, 1, dimensions(T))

all_comp_wise(T, self, rhs, p) ==
    all_comp_wise_loop(Start(self, rhs, "pending"), p, 0, dimensions(T))

(***************************************************************************)
(* dot: component_wise with the product, then fold of the temporary with   *)
(* the sum from zero.  The fold's accesses are logged on the object "tmp". *)
(***************************************************************************)
OnTmp(log) ==
    [k \in DOMAIN log |->
        IF log[k].obj = "self" THEN [log[k] EXCEPT !.obj = "tmp"] ELSE log[k]]

\* Variant: the products are replaced by the components of rhs.
dot_of_rhs(T, self, rhs, oc) ==
    LET cw == component_wise(T, self, rhs, "rhs", oc)
        fd == fold(T, cw.result, cw.rhs, zero, "sum", oc)
    IN  IF cw.panic # "none" THEN cw
        ELSE [self |-> cw.self, rhs |-> fd.rhs, result |-> fd.result,
              panic |-> fd.panic, log |-> cw.log \o OnTmp(fd.log)]

dot(T, self, rhs, oc) ==
    LET cw == component_wise(T, self, rhs, "mul", oc)
        fd == fold(T, cw.result, cw.rhs, zero, "sum", oc)
    IN  IF cw.panic # "none" THEN cw
        ELSE [self |-> cw.self, rhs |-> fd.rhs, result |-> fd.result,
              panic |-> fd.panic, log |-> cw.log \o OnTmp(fd.log)]

\* self.dot(&self): the argument is the receiver itself.
length2(T, self, oc) == dot(T, self, self, oc)

(***************************************************************************)
(* cross: one component of the result,                                     *)
(*   result[k] = self[i1] * other[j1] - self[i2] * other[j2].              *)
(***************************************************************************)
cross_component(st, k, i1, j1, i2, j2, oc) ==
    LET s1 == nth(st, "self", i1)
        s2 == nth(s1, "rhs", j1)
        p1 == scalar_mul(st.self[i1], st.rhs[j1], oc)
        s3 == nth(s2, "self", i2)
        s4 == nth(s3, "rhs", j2)
        p2 == scalar_mul(st.self[i2], st.rhs[j2], oc)
        df == scalar_sub(p1.v, p2.v, oc)
    IN  IF st.panic # "none" THEN st
        ELSE IF s1.panic # "none" THEN s1
        ELSE IF s2.panic # "none" THEN s2
        ELSE IF p1.panic # "none" THEN [s2 EXCEPT !.panic = p1.panic]
        ELSE IF s3.panic # "none" THEN s3
        ELSE IF s4.panic # "none" THEN s4
        ELSE IF p2.panic # "none" THEN [s4 EXCEPT !.panic = p2.panic]
        ELSE IF df.panic # "none" THEN [s4 EXCEPT !.panic = df.panic]
        ELSE nth_mut(s4, "result", k, df.v)

\* Variant: the second component reads other[1] where it should read other[2].
cross_index_slip(T, self, other, oc) ==
    LET s0 == Start(self, other, new(T))
        s1 == cross_component(s0, 0, 1, 2, 2, 1, oc)
        s2 == cross_component(s1, 1, 2, 0, 0, 1, oc)
    IN  cross_component(s2, 2, 0, 1, 1, 0, oc)

cross(T, self, other, oc) ==
    LET s0 == Start(self, other, new(T))
        s1 == cross_component(s0, 0, 1, 2, 2, 1, oc)
        s2 == cross_component(s1, 1, 2, 0, 0, 2, oc)
    IN  cross_component(s2, 2, 0, 1, 1, 0, oc)

(***************************************************************************)
(* The inputs: scalars from zero up and at both ends of the i32 range; any *)
(* vector a over them; b equal to a except for at most one component, or a *)
(* with its components rotated by one place; the scalar argument of mul    *)
(* and div may also be -1.                                                 *)
(***************************************************************************)
Values == {MinInt, MaxInt} \cup (0 .. MaxVal)

Scalars == Values \cup {-1}

Vectors(T) == [0 .. dimensions(T) - 1 -> Values]

Rotated(v) == [i \in DOMAIN v |-> v[(i + 1) % Cardinality(DOMAIN v)]]

Rhs(v) == {[v EXCEPT ![i] = w] : i \in DOMAIN v, w \in Values} \cup {Rotated(v)}

BinFns == {"mul", "rhs"}
UnFns == {"inc"}
FoldFns == {"sum", "push"}
Preds == {"true", "eq"}

\* The initial accumulator a caller passes to fold with closure f.
FoldInit(f) == IF f = "push" THEN <<>> ELSE zero

(***************************************************************************)
(* The state: a caller holding two vectors a and b of type T in a build    *)
(* with overflow checks oc, the last call it made, the value that call     *)
(* returned, the temporary the call was made on (for a chained call), and  *)
(* the accesses the call made.                                             *)
(***************************************************************************)
VARIABLES T, oc, a, b, call, ret, tmp, log

vars == <<T, oc, a, b, call, ret, tmp, log>>

NoCall == [op |-> "none", recv |-> "-", f |-> "-", k |-> 0, target |-> "-"]
Call(op, recv, f, k, target) ==
    [op |-> op, recv |-> recv, f |-> f, k |-> k, target |-> target]

NoRet == [kind |-> "none", v |-> 0]

\* What the caller sees of an outcome: a value of the given kind, or a panic.
Returned(out, kind) ==
    IF out.panic # "none" THEN [kind |-> "panic", v |-> out.panic]
    ELSE [kind |-> kind, v |-> out.result]

Init ==
    /\ T \in VecTypes
    /\ oc \in BOOLEAN
    /\ a \in Vectors(T)
    /\ b \in Rhs(a)
    /\ call = NoCall
    /\ ret = NoRet
    /\ tmp = <<>>
    /\ log = <<>>

\* a.op(&b): the call on the caller's two vectors.
Finish(out, c, kind) ==
    /\ a' = out.self
    /\ b' = out.rhs
    /\ ret' = Returned(out, kind)
    /\ log' = out.log
    /\ call' = c
    /\ tmp' = <<>>
    /\ UNCHANGED <<T, oc>>

\* b.op(&a): the same call with the two vectors exchanged.
FinishSwapped(out, c, kind) ==
    /\ a' = out.rhs
    /\ b' = out.self
    /\ ret' = Returned(out, kind)
    /\ log' = out.log
    /\ call' = c
    /\ tmp' = <<>>
    /\ UNCHANGED <<T, oc>>

\* ret.op(&b): the call on the vector the previous call returned.
FinishChained(out, c, kind) ==
    /\ a' = a
    /\ b' = out.rhs
    /\ tmp' = out.self
    /\ ret' = Returned(out, kind)
    /\ log' = out.log
    /\ call' = c
    /\ UNCHANGED <<T, oc>>

Fresh == call.op = "none"

Add ==
    /\ Fresh
    /\ Finish(add(T, a, b, oc), Call("add", "a", "-", 0, T), "vec")

Sub ==
    /\ Fresh
    /\ Finish(sub(T, a, b, oc), Call("sub", "a", "-", 0, T), "vec")

\* a.add(&b).sub(&b)
SubAfterAdd ==
    /\ call.op = "add" /\ ret.kind = "vec"
    /\ FinishChained(sub(T, ret.v, b, oc), Call("add.sub", "ret", "-", 0, T), "vec")

Mul ==
    /\ Fresh
    /\ \E s \in Scalars :
         Finish(mul(T, a, b, s, oc), Call("mul", "a", "-", s, T), "vec")

Div ==
    /\ Fresh
    /\ \E s \in Scalars :
         Finish(div(T, a, b, s, oc), Call("div", "a", "-", s, T), "vec")

\* a.mul(s).div(s)
DivAfterMul ==
    /\ call.op = "mul" /\ ret.kind = "vec"
    /\ FinishChained(div(T, ret.v, b, call.k, oc), Call("mul.div", "ret", "-", call.k, T), "vec")

ComponentWise ==
    /\ Fresh
    /\ \E f \in BinFns :
         Finish(component_wise(T, a, b, f, oc), Call("component_wise", "a", f, 0, T), "vec")

Map ==
    /\ Fresh
    /\ \E f \in UnFns, O \in VecTypes :
         Finish(map(T, O, a, b, [op |-> f, k |-> 0], oc), Call("map", "a", f, 0, O), "vec")

MinVec ==
    /\ Fresh
    /\ Finish(min_vec(T, a, b, oc), Call("min_vec", "a", "-", 0, T), "vec")

MaxVec ==
    /\ Fresh
    /\ Finish(max_vec(T, a, b, oc), Call("max_vec", "a", "-", 0, T), "vec")

Fold ==
    /\ Fresh
    /\ \E f \in FoldFns :
         Finish(fold(T, a, b, FoldInit(f), f, oc), Call("fold", "a", f, 0, "-"), "acc")

AllCompWise ==
    /\ Fresh
    /\ \E p \in Preds :
         LET out == all_comp_wise(T, a, b, p)
         IN  Finish([out EXCEPT !.result = (out.result = "true")],
                    Call("all_comp_wise", "a", p, 0, "-"), "bool")

Dot ==
    /\ Fresh
    /\ \/ Finish(dot(T, a, b, oc), Call("dot", "a", "-", 0, "-"), "scalar")
       \/ FinishSwapped(dot(T, b, a, oc), Call("dot", "b", "-", 0, "-"), "scalar")

\* length2 passes the receiver as its own argument; out.rhs is that alias.
Length2 ==
    /\ Fresh
    /\ LET out == length2(T, a, oc)
       IN  Finish([out EXCEPT !.rhs = b], Call("length2", "a", "-", 0, "-"), "scalar")

Cross ==
    /\ Fresh
    /\ T \in ThreeDimensional
    /\ \/ Finish(cross(T, a, b, oc), Call("cross", "a", "-", 0, T), "vec")
       \/ FinishSwapped(cross(T, b, a, oc), Call("cross", "b", "-", 0, T), "vec")

\* b.cross(&a).mul(-1)
NegAfterCross ==
    /\ call.op = "cross" /\ call.recv = "b" /\ ret.kind = "vec"
    /\ FinishChained(mul(T, ret.v, b, -1, oc), Call("cross.mul", "ret", "-", -1, T), "vec")

\* *ret.nth_mut(i) += 1 on the vector a combinator returned: the caller's
\* objects a, b and ret, with the write addressed to ret.
Mutate ==
    /\ call.op \in {"component_wise", "map", "cross"} /\ ret.kind = "vec"
    /\ \E i \in 0 .. dimensions(call.target) - 1 :
         Finish(nth_mut(Start(a, b, ret.v), "result", i, wrapping_add(ret.v[i], 1)),
                Call("nth_mut", "caller", "-", i, call.target), "vec")

Next ==
    \/ Add \/ Sub \/ SubAfterAdd
    \/ Mul \/ Div \/ DivAfterMul
    \/ ComponentWise \/ Map
    \/ MinVec \/ MaxVec
    \/ Fold \/ AllCompWise
    \/ Dot \/ Length2
    \/ Cross \/ NegAfterCross
    \/ Mutate

Spec == Init /\ [][Next]_vars

(***************************************************************************)
(* Properties.                                                             *)
(***************************************************************************)
Index == 0 .. dimensions(T) - 1

\* The closure applications of the last call, in the order they were made.
FEvents == SelectSeq(log, LAMBDA e : e.ev = "f")

\* The component accesses of the last call.
Accesses == {k \in DOMAIN log : log[k].ev \in {"nth", "nth_mut"}}

\* The closure a binary vector operation hands to component_wise.
ClosureOf(c) ==
    CASE c.op = "component_wise" -> c.f
      [] c.op = "add" -> "add"
      [] c.op = "sub" -> "sub"
      [] c.op = "min_vec" -> "min"
      [] c.op = "max_vec" -> "max"

ComponentWiseOps == {"component_wise", "add", "sub", "min_vec", "max_vec"}

\* C1: a component_wise call that returns yields a vector of the receiver's
\* type whose every component i is f(a[i], b[i]): no component is left as
\* cloned from a.
ComponentWisePerIndex ==
    (call.op \in ComponentWiseOps /\ ret.kind = "vec") =>
        /\ DOMAIN ret.v = Index
        /\ \A i \in Index : ret.v[i] = apply2(ClosureOf(call), a[i], b[i], oc).v

ComponentWiseOverwrites ==
    /\ call.op = "component_wise" /\ call.f = "rhs" /\ ret.kind = "vec"
    /\ T = "Array4"
    /\ a[3] # b[3]
    /\ ret.v[3] = b[3]

\* C2 as stated: map into a type of another dimension never fails on the
\* mismatch (a panic of the closure itself is not counted against it).
MapMismatchCompletes ==
    (call.op = "map" /\ dimensions(call.target) # dimensions(T)) =>
        ~(ret.kind = "panic" /\ ret.v = "index")

\* The closure of the last map call panics on no component below n.
MapClosureTotal(n) ==
    \A i \in 0 .. n - 1 : apply1([op |-> call.f, k |-> call.k], a[i], oc).panic = "none"

\* C2 amended: into a larger type the call returns a vector of the target
\* type whose leading components are the mapped ones and whose other
\* components are still zero; into a smaller type the call panics, on the
\* write of the first index the target does not have.
MapMismatchOutcome ==
    (call.op = "map" /\ dimensions(call.target) # dimensions(T)) =>
        LET n == dimensions(T)
            m == dimensions(call.target)
        IN  /\ (m > n /\ MapClosureTotal(n)) =>
                  /\ ret.kind = "vec"
                  /\ DOMAIN ret.v = 0 .. m - 1
                  /\ \A i \in 0 .. n - 1 :
                       ret.v[i] = apply1([op |-> call.f, k |-> call.k], a[i], oc).v
                  /\ \A i \in n .. m - 1 : ret.v[i] = zero
            /\ m < n => ret.kind = "panic"
            /\ (m < n /\ MapClosureTotal(m + 1)) =>
                  /\ ret.v = "index"
                  /\ log[Len(log)] = Ev("nth_mut", "result", m)

MapIntoSmallerPanics ==
    /\ call.op = "map" /\ T = "Array3" /\ call.target = "Array2"
    /\ ret.kind = "panic" /\ ret.v = "index"

\* C3 as stated: for s # 0, a.mul(s).div(s), when it returns, equals a.
MulDivRoundTrip ==
    (call.op = "mul.div" /\ ret.kind = "vec" /\ call.k # 0) => ret.v = a

\* C3 amended: for s # 0 and no product a[i] * s outside the i32 range,
\* a.mul(s).div(s), when it returns, equals a.
MulDivRoundTripNoOverflow ==
    (/\ call.op = "mul.div" /\ ret.kind = "vec" /\ call.k # 0
     /\ \A i \in Index : ~mul_overflows(a[i], call.k)) => ret.v = a

MulDivReturned ==
    /\ call.op = "mul.div" /\ ret.kind = "vec" /\ call.k = MaxInt
    /\ \A i \in Index : ~mul_overflows(a[i], call.k)
    /\ \E i \in Index : a[i] # 0

\* C4: a.add(b).sub(b), when it returns, equals a.
AddSubRoundTrip ==
    (call.op = "add.sub" /\ ret.kind = "vec") => ret.v = a

AddSubWrapped ==
    /\ call.op = "add.sub" /\ ret.kind = "vec"
    /\ \E i \in Index : add_overflows(a[i], b[i])
    /\ \E i \in Index : b[i] # 0 /\ ~add_overflows(a[i], b[i])

\* The components are small enough for their products to be exact.
Small(v) == \A i \in DOMAIN v : v[i] >= -1000 /\ v[i] <= 1000

\* C5: b.cross(a).mul(-1) equals a.cross(b) when both return; a.cross(a),
\* when it returns, is the zero vector; and a.cross(b) has the components
\* a1*b2 - a2*b1, a2*b0 - a0*b2, a0*b1 - a1*b0.
CrossAntiCommutes ==
    /\ (/\ call.op = "cross.mul" /\ ret.kind = "vec"
        /\ cross(T, a, b, oc).panic = "none") => ret.v = cross(T, a, b, oc).result
    /\ (call.op = "cross" /\ a = b /\ ret.kind = "vec") => ret.v = new(T)
    /\ (/\ call.op = "cross" /\ call.recv = "a" /\ ret.kind = "vec"
        /\ Small(a) /\ Small(b)) =>
            /\ ret.v[0] = (a[1] * b[2]) - (a[2] * b[1])
            /\ ret.v[1] = (a[2] * b[0]) - (a[0] * b[2])
            /\ ret.v[2] = (a[0] * b[1]) - (a[1] * b[0])

CrossNegated ==
    /\ call.op = "cross.mul" /\ ret.kind = "vec"
    /\ Small(a) /\ Small(b)
    /\ ret.v # new(T)

\* C6: all_comp_wise applies the predicate at the indices 0, 1, 2, ... in
\* that order, stops at the first index where it is false and returns
\* false there, and returns true exactly when it holds at every index.
AllCompWiseShortCircuits ==
    call.op = "all_comp_wise" =>
        LET fs == FEvents
            holds(i) == applyP(call.f, a[i], b[i])
        IN  /\ ret.kind = "bool"
            /\ \A k \in DOMAIN fs : fs[k].i = k - 1 /\ fs[k].args = <<a[k - 1], b[k - 1]>>
            /\ \A k \in DOMAIN fs : k < Len(fs) => holds(k - 1)
            /\ ret.v = FALSE => (Len(fs) >= 1 /\ ~holds(Len(fs) - 1))
            /\ ret.v = TRUE => Len(fs) = dimensions(T)
            /\ ret.v = (\A i \in Index : holds(i))
            /\ call.f = "true" => ret.v = TRUE

AllCompWiseStoppedEarly ==
    /\ call.op = "all_comp_wise" /\ call.f = "eq"
    /\ T = "Array4"
    /\ ret.v = FALSE
    /\ Len(FEvents) = 2

\* C7: fold applies f once per component, at the indices 0 .. n-1 in that
\* order, each time to the accumulator of the step before (the initial one
\* first), and returns the last accumulator; with the closure that appends,
\* the result lists the components in index order.
FoldLeftToRight ==
    (call.op = "fold" /\ ret.kind = "acc") =>
        LET fs == FEvents
            n == dimensions(T)
            next(k) == applyF(call.f, fs[k].args[1], fs[k].args[2], oc).v
        IN  /\ Len(fs) = n
            /\ \A k \in 1 .. n :
                 /\ fs[k].i = k - 1
                 /\ fs[k].args[2] = a[k - 1]
                 /\ fs[k].args[1] = IF k = 1 THEN FoldInit(call.f) ELSE next(k - 1)
            /\ ret.v = next(n)
            /\ call.f = "push" => ret.v = [k \in 1 .. n |-> a[k - 1]]

FoldOrderVisible ==
    /\ call.op = "fold" /\ call.f = "push" /\ ret.kind = "acc"
    /\ T = "Array3"
    /\ a[0] # a[2]
    /\ a[0] # a[1]

\* The sum from zero, in index order, of the first k products a[i] * b[i].
RECURSIVE SumOfProducts(_)
SumOfProducts(k) ==
    IF k = 0 THEN 0
    ELSE wrapping_add(SumOfProducts(k - 1), wrapping_mul(a[k - 1], b[k - 1]))

\* C8: a.dot(b) equals b.dot(a) when both return, and is the sum from zero,
\* in index order, of the products a[i] * b[i].
DotSymmetric ==
    (call.op = "dot" /\ ret.kind = "scalar") =>
        /\ ret.v = SumOfProducts(dimensions(T))
        /\ call.recv = "a" =>
             LET other == dot(T, b, a, oc)
             IN  other.panic = "none" => ret.v = other.result

DotOfDistinct ==
    /\ call.op = "dot" /\ call.recv = "a" /\ ret.kind = "scalar"
    /\ a # b
    /\ ret.v # 0

\* C9: every call leaves the caller's vectors a and b as they were, a
\* chained call leaves the vector it was made on as it was, and a write
\* into the returned vector changes that vector only.
InputsUnchanged ==
    [][/\ a' = a
       /\ b' = b
       /\ call'.recv = "ret" => tmp' = ret.v
       /\ call'.op = "nth_mut" => ret'.v # ret.v]_vars

ReturnedVectorMutated ==
    /\ call.op = "nth_mut" /\ ret.kind = "vec"
    /\ call.target = T
    /\ ret.v # a
    /\ ret.v # b

\* C10: with operands and result of one type, every component access of a
\* call uses an index below dimensions(), and no call ends in the panic of
\* an index out of range; cross uses the indices 0, 1 and 2 only.
IndicesInRange ==
    (call.op # "none" /\ call.target \in {T, "-"}) =>
        /\ \A k \in Accesses : log[k].i \in Index
        /\ ~(ret.kind = "panic" /\ ret.v = "index")
        /\ call.op = "cross" => \A k \in Accesses : log[k].i \in {0, 1, 2}

LastIndexAccessed ==
    /\ call.op = "map" /\ call.target = T /\ T = "Array4"
    /\ ret.kind = "vec"
    /\ \E k \in Accesses : log[k].i = 3 /\ log[k].ev = "nth_mut"

====
